---- MODULE Spec2Model ----
(***************************************************************************)
(* A model of the Neo4j scalability benchmark (neo4j_bench.py and          *)
(* neo4j_bench_optimized.py): the main driver with its bounded-retry batch *)
(* importer, the concurrency load runner and the percentile computation.   *)
(*                                                                         *)
(*   Spec      main(): import phase, benchmark phase, metrics, report,     *)
(*             with _run_batch stepped attempt by attempt                  *)
(*   SpecConc  run_concurrency_test(): the spawning thread and its workers,*)
(*             interleaved at the level of the reads and writes of the     *)
(*             shared results dictionary; SpecConcFair adds the scheduling *)
(*             of the threads and the return of every store call           *)
(*   SpecPct   _calc_percentiles() applied to bounded sample lists         *)
(*   SpecPick  _pick_account_id() in the two producers of transactions     *)
(*   SpecGen   generate_accounts() and generate_transactions(): batching   *)
(*   SpecTemp  the temporal hierarchy and the day keys of transactions     *)
(*   SpecMon   SystemMonitor: snapshots and get_metrics()                  *)
(***************************************************************************)
EXTENDS Integers, Sequences, FiniteSets, TLC

VARIABLES
    \* ---- main() -------------------------------------------------------
    schema,        \* "baseline" (neo4j_bench.py) or "optimized" (neo4j_bench_optimized.py)
    dry_run,       \* args.dry_run
    accBatches,    \* number of batches gen.generate_accounts(args.batch_size) yields
    txBatches,     \* number of batches gen.generate_transactions(args.batch_size) yields
    pc,            \* position of main()
    acc_done,      \* account batches for which import_accounts has returned
    tx_done,       \* transaction batches for which import_transactions has returned
    setup,         \* setup steps completed (create_indexes, create_temporal_hierarchy)
    report,        \* the results dictionary: which sections are populated
    written,       \* the report file: "none", "partial" (opened, dump failed) or "full"
    closed,        \* number of client.close() calls
    exc,           \* the exception main() is unwinding with, or "none"
    \* ---- _run_batch() -------------------------------------------------
    rbpc,          \* position of the _run_batch call in progress
    retries,       \* its local variable retries
    events,        \* what the call has done so far: store attempts' outcomes and "sleep"
    \* ---- run_concurrency_test() ----------------------------------------
    threads,       \* the threads argument
    mpc,           \* position of the calling thread
    started,       \* number of workers started so far (len(pool))
    joined,        \* number of workers joined so far
    stop_event,    \* stop_event.is_set()
    results,       \* the shared dictionary {"ops": .., "errors": ..}
    wpc,           \* position of each worker
    tmp,           \* each worker's operand stack: the counter value it has read
    calls,         \* store calls each worker has started
    okCalls,       \* store calls of each worker that returned
    errCalls,      \* store calls of each worker that raised
    lateCalls,     \* store calls of each worker that completed after stop_event.set()
    inFlightAtSet, \* workers whose store call was in flight when stop_event was set
    ret,           \* the numerator of the returned value, or -1 before the return
    \* ---- _calc_percentiles() -------------------------------------------
    data,          \* the list passed in (sorted in place by the call)
    input,         \* the list as it was passed in
    pct,           \* the returned dictionary, as a function on the keys present
    ppc,           \* "call" before the call, "done" after
    \* ---- _pick_account_id() --------------------------------------------
    num_accounts,  \* self.num_accounts
    producer,      \* who builds the transaction: "generate_transactions" or "run_write_test"
    pick_pc,       \* which field the producer fills next: "from_acc", "to_acc", "done"
    draws,         \* the random.random() draws made so far, as numerators over 2^Precision
    tx,            \* the transaction being built: from_acc and to_acc, -1 while unset
    \* ---- generate_accounts(), generate_transactions() -------------------
    generator,     \* which of the two generators runs
    count,         \* self.num_accounts, resp. self.num_tx
    batch_size,    \* the batch_size argument
    gen_i,         \* the loop variable i
    batch,         \* the local list batch, as the ids of its records
    yielded,       \* the batches yielded so far
    gen_pc,        \* "loop" in the for loop, "tail" after it, "done" when exhausted
    \* ---- temporal hierarchy ---------------------------------------------
    start_date,    \* local calendar date of START_TIME_YEAR_AGO
    start_tod,     \* local time of day of START_TIME_YEAR_AGO, in seconds
    month_nodes,   \* keys of the Month nodes in the store
    day_nodes,     \* keys of the Day nodes in the store
    contains,      \* the CONTAINS relationships, as pairs <<month key, day key>>
    row,           \* the transaction row generated last (ts counted from the start), or NoRow
    in_day,        \* keys of the Day nodes that CONTAIN the imported transaction
    temp_pc,       \* "hierarchy", "generate", "import", "imported", "written"
    \* ---- SystemMonitor --------------------------------------------------
    proc,          \* the counters the platform holds now
    clock,         \* what time.time() returns now
    start_stats,   \* self.start_stats
    end_stats,     \* self.end_stats, None until stop() has run
    metrics,       \* what the last get_metrics() returned, or None
    mon_exc,       \* the exception a monitor call has raised, or "none"
    mon_calls      \* calls of get_metrics() made so far

mainVars == <<schema, dry_run, accBatches, txBatches, pc, acc_done, tx_done, setup,
              report, written, closed, exc>>
rbVars   == <<rbpc, retries, events>>
concVars == <<threads, mpc, started, joined, stop_event, results, wpc, tmp, calls,
              okCalls, errCalls, lateCalls, inFlightAtSet, ret>>
pctVars  == <<data, input, pct, ppc>>
pickVars == <<num_accounts, producer, pick_pc, draws, tx>>
genVars  == <<generator, count, batch_size, gen_i, batch, yielded, gen_pc>>
tempVars == <<start_date, start_tod, month_nodes, day_nodes, contains, row, in_day,
              temp_pc>>
monVars  == <<proc, clock, start_stats, end_stats, metrics, mon_exc, mon_calls>>
vars     == <<mainVars, rbVars, concVars, pctVars, pickVars, genVars, tempVars, monVars>>

\* What each part leaves alone
notMain == <<concVars, pctVars, pickVars, genVars, tempVars, monVars>>
notConc == <<mainVars, rbVars, pctVars, pickVars, genVars, tempVars, monVars>>
notPct  == <<mainVars, rbVars, concVars, pickVars, genVars, tempVars, monVars>>
notPick == <<mainVars, rbVars, concVars, pctVars, genVars, tempVars, monVars>>
notGen  == <<mainVars, rbVars, concVars, pctVars, pickVars, tempVars, monVars>>
notTemp == <<mainVars, rbVars, concVars, pctVars, pickVars, genVars, monVars>>
notMon  == <<mainVars, rbVars, concVars, pctVars, pickVars, genVars, tempVars>>

-----------------------------------------------------------------------------
(* Bounds of the model *)

\* batches a generator yields, at most
MaxBatches == 2
\* worker threads of the concurrency test, at most
MaxThreads == 2
\* store calls the workers of one concurrency test start, all together, at most
MaxCalls == 3
\* length of the sample lists enumerated in full, at most
MaxLen == 4
\* the samples of those lists are 1..MaxVal
MaxVal == 3
\* length of the descending sample lists n..1, at most
MaxRamp == 21

-----------------------------------------------------------------------------
(* Initial values of the parts a specification does not exercise *)

MainIdle ==
    /\ schema = "baseline" /\ dry_run = FALSE
    /\ accBatches = 0 /\ txBatches = 0
    /\ pc = "idle" /\ acc_done = 0 /\ tx_done = 0 /\ setup = {}
    /\ report = {} /\ written = "none" /\ closed = 0 /\ exc = "none"
    /\ rbpc = "idle" /\ retries = 0 /\ events = <<>>

ConcIdle ==
    /\ threads = 0 /\ mpc = "idle" /\ started = 0 /\ joined = 0
    /\ stop_event = FALSE
    /\ results = [k \in {"ops", "errors"} |-> 0]
    /\ wpc = <<>> /\ tmp = <<>> /\ calls = <<>>
    /\ okCalls = <<>> /\ errCalls = <<>> /\ lateCalls = <<>>
    /\ inFlightAtSet = {} /\ ret = -1

\* The dictionary {}
EmptyDict == [k \in {} |-> 0]

PctIdle ==
    /\ data = <<>> /\ input = <<>> /\ pct = EmptyDict /\ ppc = "idle"

PickIdle ==
    /\ num_accounts = 0 /\ producer = "idle" /\ pick_pc = "idle"
    /\ draws = <<>> /\ tx = [from_acc |-> -1, to_acc |-> -1]

GenIdle ==
    /\ generator = "idle" /\ count = 0 /\ batch_size = 1 /\ gen_i = 0
    /\ batch = <<>> /\ yielded = <<>> /\ gen_pc = "idle"

\* No transaction row yet
NoRow == [ts |-> -1, month_key |-> -1, day_key |-> -1]

TempIdle ==
    /\ start_date = <<0, 0, 0>> /\ start_tod = 0
    /\ month_nodes = {} /\ day_nodes = {} /\ contains = {}
    /\ row = NoRow /\ in_day = {} /\ temp_pc = "idle"

\* The value None
None == [none |-> TRUE]

MonIdle ==
    /\ proc = None /\ clock = 0 /\ start_stats = None /\ end_stats = None
    /\ metrics = None /\ mon_exc = "none" /\ mon_calls = 0

-----------------------------------------------------------------------------
(* _run_batch: the bounded-retry batch import                               *)

\* retries = 3
InitialRetries == 3

\* time.sleep(2)
BackoffSeconds == 2

\* What one store attempt (open a session, session.run, close the session) can do.
Outcomes == {"ok", "ServiceUnavailable", "TransientError", "Other"}

\* A faulty variant of Retryable: a bare except, which takes every exception
RetryableAll(o) == o # "ok"
\* except (ServiceUnavailable, TransientError)
Retryable(o) == o \in {"ServiceUnavailable", "TransientError"}

\* A faulty variant of DecrRetries: the decrement is left out
DecrRetriesNot(r) == r
\* retries -= 1
DecrRetries(r) == r - 1

\* The attempts and sleeps recorded in a log of events
RECURSIVE Count(_, _)
Count(s, S) ==
    IF s = <<>> THEN 0
    ELSE (IF Head(s) \in S THEN 1 ELSE 0) + Count(Tail(s), S)

Attempts(ev) == Count(ev, Outcomes)
Sleeps(ev)   == Count(ev, {"sleep"})
SleptSeconds(ev) == BackoffSeconds * Sleeps(ev)

\* def _run_batch(self, query, batch): retries = 3
RunBatchEnter ==
    /\ rbpc' = "loop"
    /\ retries' = InitialRetries
    /\ events' = <<>>

\* A faulty variant of RunBatchAttemptOk: the backoff sleep runs after the success as well
RunBatchAttemptOkSleeps ==
    /\ rbpc = "loop" /\ retries > 0
    /\ events' = events \o <<"ok", "sleep">>
    /\ rbpc' = "returned"
    /\ UNCHANGED retries

\* while retries > 0: try: with self.driver.session() as session: session.run(...)
\* the attempt succeeds: return
RunBatchAttemptOk ==
    /\ rbpc = "loop" /\ retries > 0
    /\ events' = Append(events, "ok")
    /\ rbpc' = "returned"
    /\ UNCHANGED retries

\* the attempt raises: the except clause takes it (retries -= 1) or it propagates
RunBatchAttemptFails ==
    /\ rbpc = "loop" /\ retries > 0
    /\ \E o \in Outcomes \ {"ok"} :
          /\ events' = Append(events, o)
          /\ IF Retryable(o)
                THEN /\ retries' = DecrRetries(retries)
                     /\ rbpc' = "backoff"
                ELSE /\ rbpc' = "propagated"
                     /\ UNCHANGED retries

\* print(...); time.sleep(2), then back to the while test
RunBatchBackoff ==
    /\ rbpc = "backoff"
    /\ events' = Append(events, "sleep")
    /\ rbpc' = "loop"
    /\ UNCHANGED retries

\* the while test fails: raise Exception("Failed to import batch after retries")
RunBatchExhausted ==
    /\ rbpc = "loop" /\ retries <= 0
    /\ rbpc' = "exhausted"
    /\ UNCHANGED <<retries, events>>

-----------------------------------------------------------------------------
(* main(): the driver                                                       *)

Schemas == {"baseline", "optimized"}

\* The keys main() puts under results["benchmarks"], in the order it runs the tests
BenchOrder == <<"writes", "reads", "traversal", "supernode", "time_range", "concurrency">>
Benchmarks == {BenchOrder[i] : i \in 1..Len(BenchOrder)}

BenchIndex(b) == CHOOSE i \in 1..Len(BenchOrder) : BenchOrder[i] = b

\* The statement after benchmark b: the next benchmark, or monitor.get_metrics()
AfterBench(b) ==
    IF BenchIndex(b) < Len(BenchOrder) THEN BenchOrder[BenchIndex(b) + 1] ELSE "metrics"

\* A faulty variant of Raise: the exception leaves main() without the finally clause
RaiseSkipsFinally(e) ==
    /\ exc' = e
    /\ pc' = "exit"

\* An exception leaves the try block: control goes to the finally clause
Raise(e) ==
    /\ exc' = e
    /\ pc' = "finally"

ImportFatal == exc \in {"import:retries", "import:error"}

\* A faulty variant of DryRunSkip: the dry run skips the import only
DryRunSkipsImportOnly ==
    /\ pc = "try" /\ dry_run
    /\ pc' = BenchOrder[1]
    /\ UNCHANGED <<schema, dry_run, accBatches, txBatches, acc_done, tx_done, setup,
                   report, written, closed, exc, rbVars>>

\* if not args.dry_run: ... else: print("Dry run selected. Skipping import.")
\* if not args.dry_run: (benchmarks) is skipped as well
DryRunSkip ==
    /\ pc = "try" /\ dry_run
    /\ pc' = "metrics"
    /\ UNCHANGED <<schema, dry_run, accBatches, txBatches, acc_done, tx_done, setup,
                   report, written, closed, exc, rbVars>>

\* client.create_indexes()
CreateIndexes ==
    /\ pc = "try" /\ ~dry_run
    /\ \/ /\ setup' = setup \cup {"indexes"}
          /\ pc' = IF schema = "optimized" THEN "hierarchy" ELSE "accounts"
          /\ UNCHANGED exc
       \/ /\ Raise("setup:error")
          /\ UNCHANGED setup
    /\ UNCHANGED <<schema, dry_run, accBatches, txBatches, acc_done, tx_done,
                   report, written, closed, rbVars>>

\* client.create_temporal_hierarchy(), first loop: for month_key in sorted(months),
\* MERGE the Month node; a store error ends main with some of them created
CreateMonthNodes ==
    /\ pc = "hierarchy"
    /\ \/ /\ setup' = setup \cup {"months"}
          /\ pc' = "hierarchy_days"
          /\ UNCHANGED exc
       \/ /\ Raise("setup:error")
          /\ UNCHANGED setup
    /\ UNCHANGED <<schema, dry_run, accBatches, txBatches, acc_done, tx_done,
                   report, written, closed, rbVars>>

\* client.create_temporal_hierarchy(), second loop: for each day key, MATCH its
\* Month, MERGE the Day node and the CONTAINS relationship
CreateDayNodes ==
    /\ pc = "hierarchy_days"
    /\ \/ /\ setup' = setup \cup {"days"}
          /\ pc' = "accounts"
          /\ UNCHANGED exc
       \/ /\ Raise("setup:error")
          /\ UNCHANGED setup
    /\ UNCHANGED <<schema, dry_run, accBatches, txBatches, acc_done, tx_done,
                   report, written, closed, rbVars>>

\* for batch in gen.generate_accounts(args.batch_size): client.import_accounts(batch)
NextAccountBatch ==
    /\ pc = "accounts" /\ acc_done < accBatches
    /\ pc' = "import_accounts"
    /\ RunBatchEnter
    /\ UNCHANGED <<schema, dry_run, accBatches, txBatches, acc_done, tx_done, setup,
                   report, written, closed, exc>>

\* import_accounts returned: acc_count += len(batch)
ImportAccountsReturn ==
    /\ pc = "import_accounts" /\ rbpc = "returned"
    /\ acc_done' = acc_done + 1
    /\ pc' = "accounts"
    /\ rbpc' = "idle"
    /\ UNCHANGED <<schema, dry_run, accBatches, txBatches, tx_done, setup,
                   report, written, closed, exc, retries, events>>

\* the account generator is exhausted
AccountsExhausted ==
    /\ pc = "accounts" /\ acc_done = accBatches
    /\ pc' = "transactions"
    /\ UNCHANGED <<schema, dry_run, accBatches, txBatches, acc_done, tx_done, setup,
                   report, written, closed, exc, rbVars>>

\* for batch in gen.generate_transactions(args.batch_size):
\*     client.import_transactions(batch)
NextTransactionBatch ==
    /\ pc = "transactions" /\ tx_done < txBatches
    /\ pc' = "import_transactions"
    /\ RunBatchEnter
    /\ UNCHANGED <<schema, dry_run, accBatches, txBatches, acc_done, tx_done, setup,
                   report, written, closed, exc>>

\* import_transactions returned: tx_count += len(batch)
ImportTransactionsReturn ==
    /\ pc = "import_transactions" /\ rbpc = "returned"
    /\ tx_done' = tx_done + 1
    /\ pc' = "transactions"
    /\ rbpc' = "idle"
    /\ UNCHANGED <<schema, dry_run, accBatches, txBatches, acc_done, setup,
                   report, written, closed, exc, retries, events>>

\* A faulty variant of TransactionsExhausted: leaves the loop with batches still to import
TransactionsExhaustedEarly ==
    /\ pc = "transactions"
    /\ report' = report \cup {"import"}
    /\ pc' = BenchOrder[1]
    /\ UNCHANGED <<schema, dry_run, accBatches, txBatches, acc_done, tx_done, setup,
                   written, closed, exc, rbVars>>

\* the transaction generator is exhausted: results["import"] = {...}
TransactionsExhausted ==
    /\ pc = "transactions" /\ tx_done = txBatches
    /\ report' = report \cup {"import"}
    /\ pc' = BenchOrder[1]
    /\ UNCHANGED <<schema, dry_run, accBatches, txBatches, acc_done, tx_done, setup,
                   written, closed, exc, rbVars>>

\* A faulty variant of ImportRaises: the failed batch is skipped and the import goes on
ImportSkipsFailedBatch ==
    /\ pc \in {"import_accounts", "import_transactions"}
    /\ rbpc \in {"exhausted", "propagated"}
    /\ exc' = IF rbpc = "exhausted" THEN "import:retries" ELSE "import:error"
    /\ pc' = IF pc = "import_accounts" THEN "accounts" ELSE "transactions"
    /\ acc_done' = IF pc = "import_accounts" THEN acc_done + 1 ELSE acc_done
    /\ tx_done' = IF pc = "import_transactions" THEN tx_done + 1 ELSE tx_done
    /\ rbpc' = "idle"
    /\ UNCHANGED <<schema, dry_run, accBatches, txBatches, setup,
                   report, written, closed, retries, events>>

\* _run_batch raised (retries used up, or an error the except clause does not take):
\* nothing in main() catches it, so it leaves the try block
ImportRaises ==
    /\ pc \in {"import_accounts", "import_transactions"}
    /\ rbpc \in {"exhausted", "propagated"}
    /\ Raise(IF rbpc = "exhausted" THEN "import:retries" ELSE "import:error")
    /\ rbpc' = "idle"
    /\ UNCHANGED <<schema, dry_run, accBatches, txBatches, acc_done, tx_done, setup,
                   report, written, closed, retries, events>>

\* A step of the _run_batch call that import_accounts or import_transactions has
\* in progress
ImportStep(step) ==
    /\ pc \in {"import_accounts", "import_transactions"}
    /\ step
    /\ UNCHANGED mainVars

\* bench.run_write_test() ... bench.run_concurrency_test(threads=args.concurrency):
\* the test returns and its result is stored, or its store call raises.
\* run_concurrency_test swallows its workers' errors and returns.
RunBenchmark ==
    \E b \in Benchmarks :
       /\ pc = b
       /\ \/ /\ report' = report \cup {b}
             /\ pc' = AfterBench(b)
             /\ UNCHANGED exc
          \/ /\ b # "concurrency"
             /\ Raise("bench:error")
             /\ UNCHANGED report
       /\ UNCHANGED <<schema, dry_run, accBatches, txBatches, acc_done, tx_done, setup,
                      written, closed, rbVars>>

\* sys_metrics = monitor.get_metrics(); results["system_metrics"] = sys_metrics
GetMetrics ==
    /\ pc = "metrics"
    /\ report' = report \cup {"system_metrics"}
    /\ pc' = IF schema = "baseline" THEN "page_cache" ELSE "write_report"
    /\ UNCHANGED <<schema, dry_run, accBatches, txBatches, acc_done, tx_done, setup,
                   written, closed, exc, rbVars>>

\* pc_stats = client.get_page_cache_stats() (baseline only): the query's own errors
\* are swallowed and give {}, a failure to open the session propagates
GetPageCacheStats ==
    /\ pc = "page_cache"
    /\ \/ /\ report' = report \cup {"page_cache"}
          /\ pc' = "write_report"
          /\ UNCHANGED exc
       \/ /\ pc' = "write_report"
          /\ UNCHANGED <<report, exc>>
       \/ /\ Raise("metrics:error")
          /\ UNCHANGED report
    /\ UNCHANGED <<schema, dry_run, accBatches, txBatches, acc_done, tx_done, setup,
                   written, closed, rbVars>>

\* with open(args.out, 'w') as f: json.dump(results, f, indent=2)
WriteReport ==
    /\ pc = "write_report"
    /\ \/ /\ written' = "full"
          /\ pc' = "finally"
          /\ UNCHANGED exc
       \/ /\ written' = "partial"
          /\ Raise("report:error")
       \/ /\ Raise("report:error")
          /\ UNCHANGED written
    /\ UNCHANGED <<schema, dry_run, accBatches, txBatches, acc_done, tx_done, setup,
                   report, closed, rbVars>>

\* finally: client.close()
Finally ==
    /\ pc = "finally"
    /\ closed' = closed + 1
    /\ pc' = "exit"
    /\ UNCHANGED <<schema, dry_run, accBatches, txBatches, acc_done, tx_done, setup,
                   report, written, exc, rbVars>>

\* The state when main() enters its try block: the client and the monitor exist,
\* results has its empty sections
Init ==
    /\ schema \in Schemas
    /\ dry_run \in BOOLEAN
    /\ accBatches \in 1..MaxBatches
    /\ txBatches \in 1..MaxBatches
    /\ pc = "try" /\ acc_done = 0 /\ tx_done = 0 /\ setup = {}
    /\ report = {} /\ written = "none" /\ closed = 0 /\ exc = "none"
    /\ rbpc = "idle" /\ retries = 0 /\ events = <<>>
    /\ ConcIdle
    /\ PctIdle
    /\ PickIdle /\ GenIdle /\ TempIdle /\ MonIdle

Next ==
    \/ DryRunSkip /\ UNCHANGED notMain
    \/ CreateIndexes /\ UNCHANGED notMain
    \/ CreateMonthNodes /\ UNCHANGED notMain
    \/ CreateDayNodes /\ UNCHANGED notMain
    \/ NextAccountBatch /\ UNCHANGED notMain
    \/ ImportStep(RunBatchAttemptOk) /\ UNCHANGED notMain
    \/ ImportStep(RunBatchAttemptFails) /\ UNCHANGED notMain
    \/ ImportStep(RunBatchBackoff) /\ UNCHANGED notMain
    \/ ImportStep(RunBatchExhausted) /\ UNCHANGED notMain
    \/ ImportAccountsReturn /\ UNCHANGED notMain
    \/ AccountsExhausted /\ UNCHANGED notMain
    \/ NextTransactionBatch /\ UNCHANGED notMain
    \/ ImportTransactionsReturn /\ UNCHANGED notMain
    \/ TransactionsExhausted /\ UNCHANGED notMain
    \/ ImportRaises /\ UNCHANGED notMain
    \/ RunBenchmark /\ UNCHANGED notMain
    \/ GetMetrics /\ UNCHANGED notMain
    \/ GetPageCacheStats /\ UNCHANGED notMain
    \/ WriteReport /\ UNCHANGED notMain
    \/ Finally /\ UNCHANGED notMain

Spec == Init /\ [][Next]_vars

-----------------------------------------------------------------------------
(* Properties of _run_batch and of the import phase, under Spec             *)

Last(s) == s[Len(s)]

\* C2: _run_batch makes at most 3 store attempts for one batch; when every attempt
\* fails with a transient/unavailable error it raises the fatal error after exactly
\* 3 attempts, and no 4th attempt is ever made.
C2_AtMostThreeAttempts ==
    /\ Attempts(events) <= 3
    /\ rbpc = "exhausted" =>
          /\ Attempts(events) = 3
          /\ \A i \in 1..Len(events) :
                events[i] \in {"ServiceUnavailable", "TransientError", "sleep"}

C2_Witness ==
    /\ rbpc = "exhausted"
    /\ Attempts(events) = 3
    /\ pc = "import_transactions"

\* C3: when the batch fails with a transient error on 3 consecutive attempts,
\* _run_batch has slept exactly twice (2s each, 4s in total) when it raises the
\* fatal failure, and its last failed attempt is not followed by a sleep.
C3_TwoSleepsBeforeFatal ==
    rbpc = "exhausted" =>
       /\ Sleeps(events) = 2
       /\ SleptSeconds(events) = 4
       /\ Last(events) # "sleep"

\* C4: a success on attempt k (k in 1..3) after k-1 transient failures ends the
\* call: the successful attempt is the last event of the call (no further attempt,
\* no sleep after it), the call has returned, and it slept exactly k-1 times.
C4_ReturnsRightAfterSuccess ==
    /\ rbpc = "returned" => Len(events) > 0 /\ Last(events) = "ok"
    /\ \A i \in 1..Len(events) :
          events[i] = "ok" =>
             /\ i = Len(events)
             /\ rbpc \in {"returned", "idle"}
             /\ Attempts(events) \in 1..3
             /\ Sleeps(events) = Attempts(events) - 1
             /\ \A j \in 1..(i - 1) :
                   IF j % 2 = 1
                      THEN events[j] \in {"ServiceUnavailable", "TransientError"}
                      ELSE events[j] = "sleep"

C4_Witness ==
    /\ rbpc = "returned"
    /\ Attempts(events) = 3
    /\ Sleeps(events) = 2

\* C5: an attempt that fails with an error that is neither transient nor
\* unavailable, on whichever attempt, is the last event of the call (no sleep and
\* no attempt follow it) and the error is on its way to the caller: _run_batch has
\* raised it, or main() is unwinding with it.
C5_NonTransientPropagates ==
    \A i \in 1..Len(events) :
       events[i] = "Other" =>
          /\ i = Len(events)
          /\ \/ rbpc = "propagated"
             \/ rbpc = "idle" /\ exc = "import:error" /\ pc \in {"finally", "exit"}

C5_Witness ==
    /\ rbpc = "propagated"
    /\ Attempts(events) = 3
    /\ Last(events) = "Other"

\* C6: when the import of an account or transaction batch fails fatally, main()
\* is unwinding with that failure at once, and from then on no batch is imported,
\* no store attempt is made, no benchmark or metrics result is recorded and no
\* report file is written.
C6_ImportFailureAborts ==
    /\ [](ImportFatal =>
            /\ report = {}
            /\ written = "none"
            /\ pc \in {"finally", "exit"})
    /\ [][(rbpc \in {"exhausted", "propagated"})
             => exc' \in {"import:retries", "import:error"} /\ pc' = "finally"]_vars
    /\ [][ImportFatal =>
            UNCHANGED <<acc_done, tx_done, rbpc, retries, events, setup, report, written>>]_vars

\* the second of two account batches failed: the transaction batches are still to come
C6_Witness ==
    /\ ImportFatal
    /\ pc = "exit"
    /\ closed = 1
    /\ accBatches = 2
    /\ acc_done = 1
    /\ tx_done = 0

\* Where main() can be in a dry run if only the monitor and the report run
MonitorAndReport == {"try", "metrics", "write_report", "finally", "exit"}

\* What a dry run leaves undone, and what its report holds
DryRunSkipsWork ==
    /\ setup = {} /\ acc_done = 0 /\ tx_done = 0
    /\ rbpc = "idle" /\ events = <<>>
    /\ pc \notin {"hierarchy", "hierarchy_days", "accounts", "import_accounts",
                  "transactions", "import_transactions"} \cup Benchmarks
    /\ report \cap ({"import"} \cup Benchmarks) = {}
    /\ written # "none" => "system_metrics" \in report

\* C17 as stated: in a dry run main sets up nothing, imports no batch and
\* runs no benchmark, only the monitor and the report run, and the report has
\* an empty import section, an empty benchmarks section and system_metrics
C17_DryRunOnlyMonitorAndReport ==
    dry_run => (DryRunSkipsWork /\ pc \in MonitorAndReport)

\* C17: in a dry run main sets up nothing, imports no batch and runs no
\* benchmark: only the monitor, the report and, in the baseline, the query for
\* the page-cache statistics run; the report has an empty import section, an
\* empty benchmarks section and system_metrics
C17_DryRunSkipsImportAndBenchmarks ==
    dry_run =>
        /\ DryRunSkipsWork
        /\ pc \in MonitorAndReport \cup (IF schema = "baseline" THEN {"page_cache"} ELSE {})
        /\ report \subseteq {"system_metrics", "page_cache"}

\* A dry run of the baseline has ended with its report written, the page-cache
\* statistics in it
C17_Witness ==
    /\ dry_run /\ schema = "baseline" /\ pc = "exit"
    /\ written = "full" /\ report = {"system_metrics", "page_cache"}

\* Setup is complete: the indexes and, in the optimized schema, all Month
\* nodes and all Day nodes
SetupComplete ==
    /\ "indexes" \in setup
    /\ schema = "optimized" => {"months", "days"} \subseteq setup

\* C18: in a run that is not dry the phases follow one another: the indexes
\* (and, optimized, all Month nodes, then all Day nodes) are complete before
\* the first account batch, every account batch is imported before the first
\* transaction batch, at most one batch is in flight, and no benchmark runs
\* before the last transaction batch is imported
C18_PhasesInOrder ==
    ~dry_run =>
        /\ pc \in {"hierarchy", "hierarchy_days"} => "indexes" \in setup
        /\ pc = "hierarchy_days" => "months" \in setup
        /\ "days" \in setup => "months" \in setup
        /\ (pc \in {"accounts", "import_accounts"} \/ acc_done > 0 \/ rbpc # "idle")
              => SetupComplete
        /\ (pc \in {"transactions", "import_transactions"} \/ tx_done > 0)
              => acc_done = accBatches
        /\ rbpc \notin {"idle", "exhausted", "propagated"}
              => \/ pc = "import_accounts" /\ acc_done < accBatches /\ tx_done = 0
                 \/ pc = "import_transactions" /\ tx_done < txBatches
        /\ acc_done <= accBatches /\ tx_done <= txBatches
        /\ (pc \in Benchmarks \/ report \cap Benchmarks # {})
              => (acc_done = accBatches /\ tx_done = txBatches /\ rbpc = "idle"
                  /\ "import" \in report)

\* The optimized run has imported two account batches and two transaction
\* batches and is past its first benchmark
C18_Witness ==
    /\ ~dry_run /\ schema = "optimized"
    /\ setup = {"indexes", "months", "days"}
    /\ acc_done = 2 /\ tx_done = 2
    /\ pc = "reads" /\ "writes" \in report

\* C19: the client main() created is closed exactly once on every way out:
\* normal completion, dry run, fatal import failure, benchmark error and a
\* failure while writing the report
C19_ClosedExactlyOnce ==
    /\ pc = "exit" => closed = 1
    /\ pc # "exit" => closed = 0
    /\ pc = "finally" =>
          exc \in {"none", "setup:error", "import:retries", "import:error", "bench:error",
                   "metrics:error", "report:error"}

\* main() has ended on a failure while writing the report, the file half written
C19_Witness ==
    /\ pc = "exit" /\ closed = 1
    /\ exc = "report:error" /\ written = "partial"

-----------------------------------------------------------------------------
(* run_concurrency_test(): the calling thread and its workers.              *)
(* The workers are threads sharing the dictionary results; the statement   *)
(* results["ops"] += 1 is a read of the entry, an addition and a write of  *)
(* the entry, with no lock around them, so other threads may run between   *)
(* the read and the write.                                                 *)

Workers == 1..threads

Terminated(w) == wpc[w] \in {"done", "dead"}

RECURSIVE SumTo(_, _)
SumTo(f, n) == IF n = 0 THEN 0 ELSE f[n] + SumTo(f, n - 1)

\* The sum of a per-worker count over all workers
Total(f) == SumTo(f, threads)

concFrame == <<threads, stop_event, results, tmp, calls, okCalls, errCalls, lateCalls,
               inFlightAtSet, ret>>

\* for _ in range(threads): t = threading.Thread(target=worker); t.start(); pool.append(t)
StartWorker ==
    /\ mpc = "spawn" /\ started < threads
    /\ wpc' = [wpc EXCEPT ![started + 1] = "open"]
    /\ started' = started + 1
    /\ UNCHANGED <<mpc, joined, concFrame>>

\* the for loop over range(threads) ends: time.sleep(duration_sec) begins
StartSleep ==
    /\ mpc = "spawn" /\ started = threads
    /\ mpc' = "sleep"
    /\ UNCHANGED <<started, joined, wpc, concFrame>>

\* A faulty variant of SetStop: the sleep ends and the joins begin, but the
\* stop signal is never set
SetStopNoSignal ==
    /\ mpc = "sleep"
    /\ inFlightAtSet' = {w \in Workers : wpc[w] = "call"}
    /\ mpc' = "join"
    /\ UNCHANGED <<threads, started, joined, stop_event, results, wpc, tmp, calls, okCalls,
                   errCalls, lateCalls, ret>>

\* time.sleep(duration_sec) returns; stop_event.set()
SetStop ==
    /\ mpc = "sleep"
    /\ stop_event' = TRUE
    /\ inFlightAtSet' = {w \in Workers : wpc[w] = "call"}
    /\ mpc' = "join"
    /\ UNCHANGED <<threads, started, joined, results, wpc, tmp, calls, okCalls, errCalls,
                   lateCalls, ret>>

\* A faulty variant of JoinWorker: the join does not wait for the worker
JoinWorkerNoWait ==
    /\ mpc = "join" /\ joined < threads
    /\ joined' = joined + 1
    /\ UNCHANGED <<mpc, started, wpc, concFrame>>

\* for t in pool: t.join()   (returns once the thread has terminated)
JoinWorker ==
    /\ mpc = "join" /\ joined < threads
    /\ Terminated(joined + 1)
    /\ joined' = joined + 1
    /\ UNCHANGED <<mpc, started, wpc, concFrame>>

\* return results["ops"] / duration_sec
ReturnResult ==
    /\ mpc = "join" /\ joined = threads
    /\ ret' = results["ops"]
    /\ mpc' = "done"
    /\ UNCHANGED <<threads, started, joined, stop_event, results, wpc, tmp, calls,
                   okCalls, errCalls, lateCalls, inFlightAtSet>>

\* with self.client.driver.session() as session:  the session opens, or the call
\* raises and the exception ends the thread
OpenSession(w) ==
    /\ wpc[w] = "open"
    /\ \/ wpc' = [wpc EXCEPT ![w] = "check"]
       \/ wpc' = [wpc EXCEPT ![w] = "dead"]
    /\ UNCHANGED <<mpc, started, joined, concFrame>>

\* while not stop_event.is_set():  true: the try block is entered and the store call
\* session.run(...).consume() is issued (while the run has store calls left in
\* the model's budget)
LoopEnter(w) ==
    /\ wpc[w] = "check" /\ ~stop_event
    /\ Total(calls) < MaxCalls
    /\ wpc' = [wpc EXCEPT ![w] = "call"]
    /\ calls' = [calls EXCEPT ![w] = @ + 1]
    /\ UNCHANGED <<mpc, started, joined, threads, stop_event, results, tmp, okCalls,
                   errCalls, lateCalls, inFlightAtSet, ret>>

\* while not stop_event.is_set():  false: the loop and the with block end, the
\* thread terminates
LoopExit(w) ==
    /\ wpc[w] = "check" /\ stop_event
    /\ wpc' = [wpc EXCEPT ![w] = "done"]
    /\ UNCHANGED <<mpc, started, joined, concFrame>>

Late == IF stop_event THEN 1 ELSE 0

\* session.run(...).consume() returns: next is results["ops"] += 1
CallReturns(w) ==
    /\ wpc[w] = "call"
    /\ okCalls' = [okCalls EXCEPT ![w] = @ + 1]
    /\ lateCalls' = [lateCalls EXCEPT ![w] = @ + Late]
    /\ wpc' = [wpc EXCEPT ![w] = "ops_read"]
    /\ UNCHANGED <<mpc, started, joined, threads, stop_event, results, tmp, calls,
                   errCalls, inFlightAtSet, ret>>

\* session.run(...).consume() raises: except: results["errors"] += 1
CallRaises(w) ==
    /\ wpc[w] = "call"
    /\ errCalls' = [errCalls EXCEPT ![w] = @ + 1]
    /\ lateCalls' = [lateCalls EXCEPT ![w] = @ + Late]
    /\ wpc' = [wpc EXCEPT ![w] = "err_read"]
    /\ UNCHANGED <<mpc, started, joined, threads, stop_event, results, tmp, calls,
                   okCalls, inFlightAtSet, ret>>

\* The counter a worker at this position is incrementing
Key(p) == IF p \in {"ops_read", "ops_write"} THEN "ops" ELSE "errors"

\* results[k] += 1, first half: results[k] is read onto the worker's stack
CounterRead(w) ==
    /\ wpc[w] \in {"ops_read", "err_read"}
    /\ tmp' = [tmp EXCEPT ![w] = results[Key(wpc[w])]]
    /\ wpc' = [wpc EXCEPT ![w] = IF wpc[w] = "ops_read" THEN "ops_write" ELSE "err_write"]
    /\ UNCHANGED <<mpc, started, joined, threads, stop_event, results, calls, okCalls,
                   errCalls, lateCalls, inFlightAtSet, ret>>

\* results[k] += 1, second half: the value read, plus 1, is stored; back to the
\* while test
CounterWrite(w) ==
    /\ wpc[w] \in {"ops_write", "err_write"}
    /\ results' = [results EXCEPT ![Key(wpc[w])] = tmp[w] + 1]
    /\ wpc' = [wpc EXCEPT ![w] = "check"]
    /\ UNCHANGED <<mpc, started, joined, threads, stop_event, tmp, calls, okCalls,
                   errCalls, lateCalls, inFlightAtSet, ret>>

\* run_concurrency_test is entered: stop_event is clear, results is
\* {"ops": 0, "errors": 0}, no worker exists yet
InitConc ==
    /\ threads \in 0..MaxThreads
    /\ mpc = "spawn" /\ started = 0 /\ joined = 0
    /\ stop_event = FALSE
    /\ results = [k \in {"ops", "errors"} |-> 0]
    /\ wpc = [w \in Workers |-> "unstarted"]
    /\ tmp = [w \in Workers |-> 0]
    /\ calls = [w \in Workers |-> 0]
    /\ okCalls = [w \in Workers |-> 0]
    /\ errCalls = [w \in Workers |-> 0]
    /\ lateCalls = [w \in Workers |-> 0]
    /\ inFlightAtSet = {}
    /\ ret = -1
    /\ MainIdle
    /\ PctIdle
    /\ PickIdle /\ GenIdle /\ TempIdle /\ MonIdle

NextConc ==
    \/ StartWorker /\ UNCHANGED notConc
    \/ StartSleep /\ UNCHANGED notConc
    \/ SetStop /\ UNCHANGED notConc
    \/ JoinWorker /\ UNCHANGED notConc
    \/ ReturnResult /\ UNCHANGED notConc
    \/ \E w \in Workers : OpenSession(w) /\ UNCHANGED notConc
    \/ \E w \in Workers : LoopEnter(w) /\ UNCHANGED notConc
    \/ \E w \in Workers : LoopExit(w) /\ UNCHANGED notConc
    \/ \E w \in Workers : CallReturns(w) /\ UNCHANGED notConc
    \/ \E w \in Workers : CallRaises(w) /\ UNCHANGED notConc
    \/ \E w \in Workers : CounterRead(w) /\ UNCHANGED notConc
    \/ \E w \in Workers : CounterWrite(w) /\ UNCHANGED notConc

SpecConc == InitConc /\ [][NextConc]_vars

\* The steps of the calling thread: each statement of run_concurrency_test
\* completes, time.sleep(duration_sec) returns, and t.join() returns once the
\* thread has terminated
MainStep ==
    (StartWorker \/ StartSleep \/ SetStop \/ JoinWorker \/ ReturnResult) /\ UNCHANGED notConc

\* The steps of the workers: a started thread that can run is scheduled, and
\* its store calls (opening the session, session.run(...).consume()) return
\* or raise
WorkerStep ==
    \E w \in Workers :
       /\ \/ OpenSession(w) \/ LoopEnter(w) \/ LoopExit(w)
          \/ CallReturns(w) \/ CallRaises(w)
          \/ CounterRead(w) \/ CounterWrite(w)
       /\ UNCHANGED notConc

\* run_concurrency_test with threads that keep running and store calls that end
SpecConcFair ==
    /\ SpecConc
    /\ WF_vars(MainStep)
    /\ WF_vars(WorkerStep)

-----------------------------------------------------------------------------
(* Properties of run_concurrency_test, under SpecConc                       *)

\* C1: when run_concurrency_test returns, the shared ops counter equals the sum over
\* the workers of the store calls that returned and the shared errors counter the
\* sum of the calls that raised: no increment is lost.
C1_NoIncrementLost ==
    mpc = "done" =>
       /\ results["ops"] = Total(okCalls)
       /\ results["errors"] = Total(errCalls)

\* A worker finishes an increment of counter k
Finishes(w, p) == wpc[w] = p /\ wpc'[w] # p

\* C7, first part: the handling of a store call that raised increments the errors
\* counter and leaves the ops counter alone
C7_ErrorIsCounted ==
    [][\A w \in Workers :
          Finishes(w, "err_write") =>
             /\ results'["errors"] = results["errors"] + 1
             /\ results'["ops"] = results["ops"]]_vars

\* C7, second part: the error stays in the worker, which goes on to its next
\* iteration: after a call raised the worker is in the except clause, then back
\* at the while test; a worker is ended by an exception only before its first call
C7_ErrorIsSwallowed ==
    /\ [][\A w \in Workers :
             (wpc[w] = "call" /\ errCalls'[w] > errCalls[w]) => wpc'[w] = "err_read"]_vars
    /\ [][\A w \in Workers : Finishes(w, "err_read") => wpc'[w] = "err_write"]_vars
    /\ [][\A w \in Workers : Finishes(w, "err_write") => wpc'[w] = "check"]_vars
    /\ [](\A w \in Workers : wpc[w] = "dead" => calls[w] = 0)
    /\ [](\A w \in Workers : wpc[w] = "done" => stop_event)

\* C7: a store call that raises inside a worker's loop increments the errors
\* counter and not the ops counter, is not propagated out of the worker and does
\* not stop the worker or the run.
C7_CallErrorCountedNotPropagated ==
    /\ C7_ErrorIsCounted
    /\ C7_ErrorIsSwallowed

\* C8: the result is computed only after the stop signal is set and every worker
\* has terminated, and once it is computed no worker changes a counter or issues
\* a store call.
C8_ResultAfterAllWorkersEnd ==
    /\ [](ret # -1 =>
            /\ stop_event
            /\ joined = threads
            /\ \A w \in Workers : Terminated(w)
            /\ ret = results["ops"])
    /\ [][ret # -1 => UNCHANGED <<results, calls, okCalls, errCalls, wpc>>]_vars

C8_Witness ==
    /\ ret # -1
    /\ threads = 2
    /\ ret >= 1
    /\ \E w \in Workers : lateCalls[w] = 1 /\ wpc[w] = "done"

\* C9, first part: after the signal is set each worker completes at most one more
\* store call
C9_AtMostOneLateCall ==
    [](\A w \in Workers : lateCalls[w] <= 1)

\* C9, second part: the signal is looked at only at the while test, and a worker
\* that has seen it set starts no store call
C9_NoCallOnceObserved ==
    /\ [][\A w \in Workers : wpc[w] = "done" => wpc'[w] = "done" /\ calls'[w] = calls[w]]_vars
    /\ [][\A w \in Workers : (wpc[w] # "done" /\ wpc'[w] = "done")
                                => wpc[w] = "check" /\ stop_event]_vars
    /\ [][\A w \in Workers : calls'[w] > calls[w] => wpc[w] = "check" /\ ~stop_event]_vars

\* C9, third part: a call in flight when the signal is set finishes (it returns or
\* raises, it is not cancelled) ...
C9_InFlightFinishes ==
    /\ [][\A w \in inFlightAtSet :
             Finishes(w, "call") => wpc'[w] \in {"ops_read", "err_read"}]_vars
    /\ [](\A w \in inFlightAtSet :
             Terminated(w) => wpc[w] = "done" /\ lateCalls[w] = 1)

\* ... and is counted: the increment that follows it raises its counter by one
C9_InFlightCounted ==
    [][\A w \in inFlightAtSet :
          /\ Finishes(w, "ops_write") => results'["ops"] = results["ops"] + 1
          /\ Finishes(w, "err_write") => results'["errors"] = results["errors"] + 1]_vars

\* C9: stopping is cooperative: a worker checks the signal only between iterations,
\* a call in flight when the signal is set finishes and is counted, and after the
\* signal each worker completes at most one more call and starts none once it has
\* observed the signal.
C9_CooperativeStop ==
    /\ C9_AtMostOneLateCall
    /\ C9_NoCallOnceObserved
    /\ C9_InFlightFinishes
    /\ C9_InFlightCounted

-----------------------------------------------------------------------------
(* _calc_percentiles(data)                                                  *)

\* s with x put before its first element greater than x
RECURSIVE Insert(_, _)
Insert(x, s) ==
    IF s = <<>> THEN <<x>>
    ELSE IF x <= Head(s) THEN <<x>> \o s
    ELSE <<Head(s)>> \o Insert(x, Tail(s))

\* data.sort(): the list in ascending order
RECURSIVE Sort(_)
Sort(s) == IF s = <<>> THEN <<>> ELSE Insert(Head(s), Sort(Tail(s)))

\* A faulty variant of PercentileIndex: the nearest-rank index ceil(n * k / 100) - 1
PercentileIndexNearestRank(n, k) == ((n * k + 99) \div 100) - 1

\* int(n * 0.5), int(n * 0.9), int(n * 0.99), with k the percentile in hundredths:
\* the double product n * 0.k truncated towards zero. For every list length up to
\* two million the truncated double product is the integer floor(n * k / 100).
PercentileIndex(n, k) == (n * k) \div 100

\* data[i] of Python's 0-based list
At(s, i) == s[i + 1]

PercentileKeys == {"p50_ms", "p90_ms", "p99_ms"}

Hundredths(key) ==
    CASE key = "p50_ms" -> 50
      [] key = "p90_ms" -> 90
      [] key = "p99_ms" -> 99

\* if not data: return {}
\* data.sort(); n = len(data); return {"p50_ms": data[int(n * 0.5)], ...}
CalcPercentiles ==
    /\ ppc = "call"
    /\ data' = Sort(data)
    /\ pct' = IF data = <<>>
                 THEN EmptyDict
                 ELSE [key \in PercentileKeys |->
                          At(Sort(data), PercentileIndex(Len(data), Hundredths(key)))]
    /\ ppc' = "done"
    /\ UNCHANGED input

\* The list n, n-1, ..., 1
Ramp(n) == [i \in 1..n |-> n + 1 - i]

\* The sample lists the call is tried on: every list of up to MaxLen samples among
\* 1..MaxVal, and the lists n..1 for n up to MaxRamp
SampleLists ==
    UNION {[1..n -> 1..MaxVal] : n \in 0..MaxLen} \cup {Ramp(n) : n \in 1..MaxRamp}

InitPct ==
    /\ data \in SampleLists
    /\ input = data
    /\ pct = EmptyDict
    /\ ppc = "call"
    /\ MainIdle
    /\ ConcIdle
    /\ PickIdle /\ GenIdle /\ TempIdle /\ MonIdle

NextPct ==
    \/ CalcPercentiles /\ UNCHANGED notPct

SpecPct == InitPct /\ [][NextPct]_vars

-----------------------------------------------------------------------------
(* Properties of _calc_percentiles, under SpecPct                           *)

\* v is the element at 0-based index i of s put in ascending order: at most i
\* elements of s are smaller than v, and more than i are at most v
IsAtSortedIndex(v, i, s) ==
    /\ Cardinality({j \in 1..Len(s) : s[j] < v}) <= i
    /\ i < Cardinality({j \in 1..Len(s) : s[j] <= v})

\* C10: for a non-empty list of n samples the result holds, as p50, p90 and p99,
\* the elements at indices floor(n*0.5), floor(n*0.9) and floor(n*0.99) of the
\* ascending-sorted list, each index < n, so p50 <= p90 <= p99 and all three are
\* samples of the input (the samples 1..10 give 6, 10, 10); an empty list gives an
\* empty result.
C10_Percentiles ==
    ppc = "done" =>
       LET n == Len(input) IN
       IF n = 0
          THEN DOMAIN pct = {}
          ELSE /\ DOMAIN pct = {"p50_ms", "p90_ms", "p99_ms"}
               /\ (n * 50) \div 100 < n /\ (n * 90) \div 100 < n /\ (n * 99) \div 100 < n
               /\ IsAtSortedIndex(pct["p50_ms"], (n * 50) \div 100, input)
               /\ IsAtSortedIndex(pct["p90_ms"], (n * 90) \div 100, input)
               /\ IsAtSortedIndex(pct["p99_ms"], (n * 99) \div 100, input)
               /\ pct["p50_ms"] <= pct["p90_ms"] /\ pct["p90_ms"] <= pct["p99_ms"]
               /\ \A key \in DOMAIN pct : \E j \in 1..n : input[j] = pct[key]
               /\ (\A v \in 1..10 : \E j \in 1..n : input[j] = v) /\ n = 10
                     => pct["p50_ms"] = 6 /\ pct["p90_ms"] = 10 /\ pct["p99_ms"] = 10

C10_Witness ==
    /\ ppc = "done"
    /\ input = Ramp(10)
    /\ data = [i \in 1..10 |-> i]
    /\ pct["p50_ms"] = 6 /\ pct["p90_ms"] = 10 /\ pct["p99_ms"] = 10

-----------------------------------------------------------------------------
(* _pick_account_id: the skewed choice of an account id                     *)
(*                                                                          *)
(* Python floats are binary floating-point numbers, and every operation on  *)
(* them rounds its exact result to the nearest representable value, ties to *)
(* even.  The model keeps that arithmetic and shortens the significand from *)
(* 53 bits to Precision bits: a draw of random.random() is m / 2^Precision  *)
(* with 0 <= m < 2^Precision, and values are held as integers in units of   *)
(* 2^-(ZIPF_SKEW * Precision).                                              *)

\* significand bits of the floating-point format
Precision == 5
\* self.num_accounts, at most (below 2^(Precision-1), as the presets are far below 2^52)
MaxAccounts == 10

\* ZIPF_SKEW = 2.0
ZIPF_SKEW == 2

\* The values random.random() can return, as numerators over 2^Precision
Draws == 0..(2^Precision - 1)

\* The integer 1.0 is held as
Unit == 2^(ZIPF_SKEW * Precision)

RECURSIVE BitLength(_)
BitLength(x) == IF x = 0 THEN 0 ELSE 1 + BitLength(x \div 2)

\* The float nearest to x: Precision significant bits, ties to even
RoundToFloat(x) ==
    IF BitLength(x) <= Precision
    THEN x
    ELSE LET e    == BitLength(x) - Precision
             q    == x \div 2^e
             r    == x % 2^e
             half == 2^(e - 1)
         IN  IF r > half \/ (r = half /\ q % 2 = 1)
             THEN (q + 1) * 2^e
             ELSE q * 2^e

\* A faulty variant of PickAccountId: rounds the product up instead of truncating it
PickAccountIdCeil(N, m) ==
    LET x == RoundToFloat(m ^ ZIPF_SKEW)
    IN  (RoundToFloat(N * x) + Unit - 1) \div Unit

\* int(self.num_accounts * (random.random() ** ZIPF_SKEW)), for the draw m / 2^Precision
PickAccountId(N, m) ==
    LET x == RoundToFloat(m ^ ZIPF_SKEW)      \* random.random() ** ZIPF_SKEW
    IN  RoundToFloat(N * x) \div Unit          \* int(self.num_accounts * x)

\* "from_acc": self._pick_account_id()
PickFromAcc ==
    /\ pick_pc = "from_acc"
    /\ \E m \in Draws :
          /\ tx' = [tx EXCEPT !.from_acc = PickAccountId(num_accounts, m)]
          /\ draws' = Append(draws, m)
    /\ pick_pc' = "to_acc"
    /\ UNCHANGED <<num_accounts, producer>>

\* "to_acc": self._pick_account_id()
PickToAcc ==
    /\ pick_pc = "to_acc"
    /\ \E m \in Draws :
          /\ tx' = [tx EXCEPT !.to_acc = PickAccountId(num_accounts, m)]
          /\ draws' = Append(draws, m)
    /\ pick_pc' = "done"
    /\ UNCHANGED <<num_accounts, producer>>

InitPick ==
    /\ num_accounts \in 1..MaxAccounts
    /\ producer \in {"generate_transactions", "run_write_test"}
    /\ pick_pc = "from_acc"
    /\ draws = <<>>
    /\ tx = [from_acc |-> -1, to_acc |-> -1]
    /\ MainIdle /\ ConcIdle /\ PctIdle /\ GenIdle /\ TempIdle /\ MonIdle

NextPick ==
    \/ PickFromAcc /\ UNCHANGED notPick
    \/ PickToAcc /\ UNCHANGED notPick

SpecPick == InitPick /\ [][NextPick]_vars

\* floor(N * u^2) in exact arithmetic, for the draw u = m / 2^Precision
ExactFloor(N, m) == (N * m ^ ZIPF_SKEW) \div Unit

\* The picks made so far, each with the draw it came from
Picked ==
    {<<draws[1], tx.from_acc>> : k \in {j \in {1} : Len(draws) >= 1}} \cup
    {<<draws[2], tx.to_acc>>   : k \in {j \in {2} : Len(draws) >= 2}}

-----------------------------------------------------------------------------
(* generate_accounts, generate_transactions: the batching generators        *)
(*                                                                          *)
(* Both run the same loop over range(count); a record is held as its id.    *)

\* records a generator produces, at most
MaxCount == 5
\* the batch_size argument, at most
MaxBatchSize == 3

\* A faulty variant of BatchIsFull: yields one record late
BatchIsFullLate(b, size) == Len(b) > size

\* if len(batch) >= batch_size
BatchIsFull(b, size) == Len(b) >= size

\* One iteration of the for loop: append record i, yield when the batch is full
GenLoop ==
    /\ gen_pc = "loop"
    /\ gen_i < count
    /\ LET b == Append(batch, gen_i)
       IN  IF BatchIsFull(b, batch_size)
           THEN /\ yielded' = Append(yielded, b)
                /\ batch' = <<>>
           ELSE /\ batch' = b
                /\ UNCHANGED yielded
    /\ gen_i' = gen_i + 1
    /\ UNCHANGED <<generator, count, batch_size, gen_pc>>

\* range(count) is exhausted: if batch: yield batch; then the generator ends
GenTail ==
    /\ gen_pc = "loop"
    /\ gen_i = count
    /\ IF batch # <<>>
       THEN /\ yielded' = Append(yielded, batch)
            /\ batch' = <<>>
       ELSE UNCHANGED <<yielded, batch>>
    /\ gen_pc' = "done"
    /\ UNCHANGED <<generator, count, batch_size, gen_i>>

InitGen ==
    /\ generator \in {"generate_accounts", "generate_transactions"}
    /\ count \in 0..MaxCount
    /\ batch_size \in 1..MaxBatchSize
    /\ gen_i = 0 /\ batch = <<>> /\ yielded = <<>> /\ gen_pc = "loop"
    /\ MainIdle /\ ConcIdle /\ PctIdle /\ PickIdle /\ TempIdle /\ MonIdle

NextGen ==
    \/ GenLoop /\ UNCHANGED notGen
    \/ GenTail /\ UNCHANGED notGen

SpecGen == InitGen /\ [][NextGen]_vars

\* The batches of a sequence of batches, one after the other
RECURSIVE Flatten(_)
Flatten(bs) == IF bs = <<>> THEN <<>> ELSE Head(bs) \o Flatten(Tail(bs))

\* The ids 0..n-1 in order
Ids(n) == [j \in 1..n |-> j - 1]

\* C12: for count >= 0 and batch_size >= 1 the generator yields finitely many
\* batches, none empty, every batch but possibly the last of exactly
\* batch_size records and the last of 1..batch_size; together the batches are
\* the ids 0..count-1 in order, each once (no batch when count is 0)
C12_BatchesPartitionIds ==
    /\ \A k \in 1..Len(yielded) :
          /\ yielded[k] # <<>>
          /\ Len(yielded[k]) <= batch_size
          /\ (k < Len(yielded) \/ gen_pc = "loop") => Len(yielded[k]) = batch_size
    /\ Flatten(yielded) \o batch = Ids(gen_i)
    /\ Len(yielded) <= count
    /\ gen_pc = "done" =>
          /\ Flatten(yielded) = Ids(count)
          /\ Len(yielded) = (count + batch_size - 1) \div batch_size
          /\ (count = 0 => yielded = <<>>)

\* generate_transactions has ended after two full batches and a last batch of one record
C12_Witness ==
    /\ generator = "generate_transactions" /\ gen_pc = "done"
    /\ count = 5 /\ batch_size = 2
    /\ yielded = << <<0, 1>>, <<2, 3>>, <<4>> >>

-----------------------------------------------------------------------------
(* The temporal hierarchy of the optimized schema                           *)
(*                                                                          *)
(* datetime.fromtimestamp gives local time; the model takes a local time    *)
(* with a fixed offset from UTC, so that a timestamp t seconds after        *)
(* START_TIME_YEAR_AGO falls (start_tod + t) \div 86400 days after          *)
(* start_date.  Timestamps are counted from START_TIME_YEAR_AGO.            *)

\* times of day enumerated: this many evenly spaced ones, and the last second
SamplesPerDay == 4

\* 86400: seconds in a day
DaySeconds == 86400

\* for day_offset in range(365)
HierarchyDays == 365

\* 365 * 24 * 3600: the length of the window transactions are spread over
WindowSeconds == 365 * 24 * 3600

IsLeap(y) == (y % 4 = 0 /\ y % 100 # 0) \/ y % 400 = 0

DaysInMonth(y, m) ==
    IF m = 2 THEN (IF IsLeap(y) THEN 29 ELSE 28)
    ELSE IF m \in {4, 6, 9, 11} THEN 30 ELSE 31

\* The date n days after the date d = <<year, month, day>>
RECURSIVE AddDays(_, _)
AddDays(d, n) ==
    IF d[3] + n <= DaysInMonth(d[1], d[2])
    THEN <<d[1], d[2], d[3] + n>>
    ELSE LET rest == n - (DaysInMonth(d[1], d[2]) - d[3]) - 1
         IN  IF d[2] = 12 THEN AddDays(<<d[1] + 1, 1, 1>>, rest)
                          ELSE AddDays(<<d[1], d[2] + 1, 1>>, rest)

\* datetime.datetime.fromtimestamp(START_TIME_YEAR_AGO + t): the local date
FromTimestamp(t) == AddDays(start_date, (start_tod + t) \div DaySeconds)

\* f"{dt.year}_{dt.month:02d}": the digits of year and month
MonthKey(d) == d[1] * 100 + d[2]

\* f"{dt.year}_{dt.month:02d}_{dt.day:02d}": the digits of year, month and day
DayKey(d) == d[1] * 10000 + d[2] * 100 + d[3]

\* The times of day enumerated
SecondSamples ==
    {k * (DaySeconds \div SamplesPerDay) : k \in 0..(SamplesPerDay - 1)} \cup {DaySeconds - 1}

\* int((365 * 24 * 3600) * math.sqrt(random.random())), the values enumerated
Offsets ==
    {o \in {d * DaySeconds + s : d \in 0..(HierarchyDays - 1), s \in SecondSamples} :
        o < WindowSeconds}

\* The dates of START_TIME_YEAR_AGO enumerated
StartDates == {<<2025, 11, 4>>, <<2023, 3, 1>>, <<2024, 12, 31>>}

\* create_temporal_hierarchy(): one date per day_offset in range(365); the Month
\* nodes are created first, then each Day node with its CONTAINS relationship
CreateTemporalHierarchy ==
    /\ temp_pc = "hierarchy"
    /\ LET dates == {FromTimestamp(day_offset * DaySeconds) :
                        day_offset \in 0..(HierarchyDays - 1)}
       IN  /\ month_nodes' = {MonthKey(d) : d \in dates}
           /\ day_nodes' = {DayKey(d) : d \in dates}
           /\ contains' = {<<MonthKey(d), DayKey(d)>> : d \in dates}
    /\ temp_pc' = "generate"
    /\ UNCHANGED <<start_date, start_tod, row, in_day>>

\* generate_transactions(): the timestamp and the bucket keys of one record
GenerateTransaction ==
    /\ temp_pc = "generate"
    /\ \E offset \in Offsets :
          LET dt == FromTimestamp(offset)
          IN  row' = [ts |-> offset, month_key |-> MonthKey(dt), day_key |-> DayKey(dt)]
    /\ temp_pc' = "import"
    /\ UNCHANGED <<start_date, start_tod, month_nodes, day_nodes, contains, in_day>>

\* import_transactions_optimized(): MATCH (d:Day {key: row.day_key}) ...
\* CREATE (d)-[:CONTAINS]->(t); a row whose MATCH finds no Day creates nothing
ImportTransaction ==
    /\ temp_pc = "import"
    /\ in_day' = {k \in day_nodes : k = row.day_key}
    /\ temp_pc' = "imported"
    /\ UNCHANGED <<start_date, start_tod, month_nodes, day_nodes, contains, row>>

\* The time from the start of the program to run_write_test, the values enumerated
Elapsed == SecondSamples

\* run_write_test(): every row carries the day_key of datetime.datetime.now(),
\* and the write query creates a row's Transaction under the Day its
\* MATCH (d:Day {key: row.day_key}) finds; now is the start of the program,
\* START_TIME_YEAR_AGO + 365 * 24 * 3600, plus the time elapsed since
RunWriteTest ==
    /\ temp_pc = "generate"
    /\ \E elapsed \in Elapsed :
          LET now == WindowSeconds + elapsed
              dt  == FromTimestamp(now)
          IN  /\ row' = [ts |-> now, month_key |-> MonthKey(dt), day_key |-> DayKey(dt)]
              /\ in_day' = {k \in day_nodes : k = DayKey(dt)}
    /\ temp_pc' = "written"
    /\ UNCHANGED <<start_date, start_tod, month_nodes, day_nodes, contains>>

InitTemp ==
    /\ start_date \in StartDates
    /\ start_tod \in SecondSamples
    /\ month_nodes = {} /\ day_nodes = {} /\ contains = {}
    /\ row = NoRow /\ in_day = {} /\ temp_pc = "hierarchy"
    /\ MainIdle /\ ConcIdle /\ PctIdle /\ PickIdle /\ GenIdle /\ MonIdle

NextTemp ==
    \/ CreateTemporalHierarchy /\ UNCHANGED notTemp
    \/ GenerateTransaction /\ UNCHANGED notTemp
    \/ ImportTransaction /\ UNCHANGED notTemp
    \/ RunWriteTest /\ UNCHANGED notTemp

SpecTemp == InitTemp /\ [][NextTemp]_vars

\* C13: every transaction generate_transactions produces (start <= ts <
\* start + 365 days) carries the key of a Day node create_temporal_hierarchy
\* created, so the import links it to exactly one Day, the one of the date of
\* its ts, and that Day is contained in the Month of the same date
C13_DayKeyHasBucket ==
    /\ temp_pc \in {"import", "imported"} =>
          /\ 0 <= row.ts /\ row.ts < WindowSeconds
          /\ row.day_key \in day_nodes
    /\ temp_pc = "imported" =>
          /\ in_day = {DayKey(FromTimestamp(row.ts))}
          /\ <<MonthKey(FromTimestamp(row.ts)), DayKey(FromTimestamp(row.ts))>> \in contains

\* What does hold: a transaction dated within the first 364 days and the rest
\* of the start date's own day has its Day node, contained in its Month
C13_EarlierDaysHaveBucket ==
    (temp_pc \in {"import", "imported"}
        /\ start_tod + row.ts < HierarchyDays * DaySeconds) =>
        /\ row.day_key \in day_nodes
        /\ <<row.month_key, row.day_key>> \in contains
        /\ temp_pc = "imported" => in_day = {DayKey(FromTimestamp(row.ts))}

-----------------------------------------------------------------------------
(* SystemMonitor: two snapshots of the platform counters, and get_metrics   *)
(*                                                                          *)
(* proc is the platform: its cumulative counters, and which of the three    *)
(* counter files can be opened and read now.  Between two snapshots the     *)
(* counters only grow; the wall clock time.time() may also be set back.     *)
(* Metrics are held in hundredths, as round(.., 2) leaves them.             *)

\* CPU ticks that pass while the monitor lives, at most
MaxTicks == 2
\* disk blocks of 2048 sectors read, and written, while the monitor lives, at most
MaxBlocks == 1
\* time.time() returns 0..MaxClock
MaxClock == 2
\* calls of get_metrics() on one monitor, at most
MaxMonCalls == 2

Sources == {"/proc/stat", "/proc/diskstats", "/proc/meminfo"}

Times == 0..MaxClock

\* read_sectors * 512
SectorBytes == 512

\* 1024*1024
MiB == 1024 * 1024

\* The counters when the monitor is constructed
BootProc ==
    [cpu_total |-> 4, cpu_idle |-> 2, sectors_read |-> 2048, sectors_written |-> 4096,
     mem_total |-> 4 * MiB, mem_avail |-> MiB, readable |-> Sources]

\* Sectors in a block of 1 MiB
BlockSectors == MiB \div SectorBytes

\* The platform at a later time: the counters have grown, idle ticks by no more
\* than all ticks, and any of the files may have become unreadable or readable
Later(p) ==
    {q \in [cpu_total : p.cpu_total..(BootProc.cpu_total + MaxTicks),
            cpu_idle : p.cpu_idle..(BootProc.cpu_idle + MaxTicks),
            sectors_read : {BootProc.sectors_read + BlockSectors * k : k \in 0..MaxBlocks},
            sectors_written : {BootProc.sectors_written + BlockSectors * k : k \in 0..MaxBlocks},
            mem_total : {p.mem_total}, mem_avail : {p.mem_avail},
            readable : SUBSET Sources] :
        /\ q.cpu_idle - p.cpu_idle <= q.cpu_total - p.cpu_total
        /\ q.sectors_read >= p.sectors_read
        /\ q.sectors_written >= p.sectors_written}

\* A faulty variant of ReadProcFile: without the try/except, the error propagates
ReadProcFileRaises(path, p) ==
    IF path \in p.readable THEN [ok |-> TRUE, lines |-> {p}]
                           ELSE [ok |-> FALSE, lines |-> {}]

\* _read_proc_file: the content of the file, or "" when open or read raises
ReadProcFile(path, p) ==
    IF path \in p.readable THEN [ok |-> TRUE, lines |-> {p}]
                           ELSE [ok |-> TRUE, lines |-> {}]

\* _get_cpu_times: total and idle of the 'cpu ' line, or 0, 0
GetCpuTimes(p) ==
    LET content == ReadProcFile("/proc/stat", p).lines
    IN  IF content # {}
        THEN LET line == CHOOSE l \in content : TRUE IN <<line.cpu_total, line.cpu_idle>>
        ELSE <<0, 0>>

\* _get_disk_io: the sectors read and written, summed over the lines, times 512
GetDiskIo(p) ==
    LET content == ReadProcFile("/proc/diskstats", p).lines
        read_sectors  == IF content = {} THEN 0
                         ELSE (CHOOSE l \in content : TRUE).sectors_read
        write_sectors == IF content = {} THEN 0
                         ELSE (CHOOSE l \in content : TRUE).sectors_written
    IN  <<read_sectors * SectorBytes, write_sectors * SectorBytes>>

\* _get_mem_info: mem_total, mem_total - mem_avail, both 0 unless a line sets them
GetMemInfo(p) ==
    LET content == ReadProcFile("/proc/meminfo", p).lines
        mem_total == IF content = {} THEN 0 ELSE (CHOOSE l \in content : TRUE).mem_total
        mem_avail == IF content = {} THEN 0 ELSE (CHOOSE l \in content : TRUE).mem_avail
    IN  <<mem_total, mem_total - mem_avail>>

\* The exception _capture_stats ends with, or "none"
CaptureExc(p) ==
    IF \E path \in Sources : ~ReadProcFile(path, p).ok THEN "OSError" ELSE "none"

\* _capture_stats: the snapshot dictionary
CaptureStats(p, t) ==
    [time |-> t,
     cpu_total |-> GetCpuTimes(p)[1], cpu_idle |-> GetCpuTimes(p)[2],
     disk_read_bytes |-> GetDiskIo(p)[1], disk_write_bytes |-> GetDiskIo(p)[2],
     mem_total_kb |-> GetMemInfo(p)[1], mem_used_kb |-> GetMemInfo(p)[2]]

\* A faulty variant of ClampDuration: clamps negative durations only
ClampDurationNegative(d) == IF d < 0 THEN 1 ELSE d

\* if duration <= 0: duration = 1
ClampDuration(d) == IF d <= 0 THEN 1 ELSE d

\* round(num / den, 2) for den > 0, in hundredths: the nearest, ties to even
Round2(num, den) ==
    LET n == 2 * 100 * num + den
        q == n \div (2 * den)
    IN  IF n % (2 * den) = 0 /\ q % 2 = 1 THEN q - 1 ELSE q

\* The divisors get_metrics divides by, for start snapshot s and end snapshot e
Divisors(s, e) ==
    {ClampDuration(e.time - s.time), MiB} \cup
    (IF e.cpu_total - s.cpu_total > 0 THEN {e.cpu_total - s.cpu_total} ELSE {})

\* The dictionary get_metrics returns, for start snapshot s and end snapshot e
Metrics(s, e) ==
    LET duration    == ClampDuration(e.time - s.time)
        delta_total == e.cpu_total - s.cpu_total
        delta_idle  == e.cpu_idle - s.cpu_idle
        cpu_load_pct == IF delta_total > 0
                        THEN Round2(100 * (delta_total - delta_idle), delta_total)
                        ELSE 0
        read_bytes  == e.disk_read_bytes - s.disk_read_bytes
        write_bytes == e.disk_write_bytes - s.disk_write_bytes
    IN  [cpu_load_percent |-> cpu_load_pct,
         memory_used_gb   |-> Round2(e.mem_used_kb, MiB),
         disk_read_mb_s   |-> Round2(read_bytes, duration * MiB),
         disk_write_mb_s  |-> Round2(write_bytes, duration * MiB)]

\* A faulty variant of NeedsStop: captures the end snapshot on every call
NeedsStopAlways(es) == TRUE

\* if not self.end_stats: None is false, the snapshot dictionary (7 keys) is true
NeedsStop(es) == es = None

\* stop(): self.end_stats = self._capture_stats()
Stop ==
    /\ mon_exc = "none" /\ end_stats = None
    /\ \E p \in Later(proc), t \in Times :
          /\ proc' = p /\ clock' = t
          /\ mon_exc' = CaptureExc(p)
          /\ end_stats' = IF CaptureExc(p) = "none" THEN CaptureStats(p, t) ELSE end_stats
    /\ UNCHANGED <<start_stats, metrics, mon_calls>>

\* get_metrics() when it has to call stop() first
GetMetricsStopping ==
    /\ mon_exc = "none" /\ mon_calls < MaxMonCalls
    /\ NeedsStop(end_stats)
    /\ \E p \in Later(proc), t \in Times :
          /\ proc' = p /\ clock' = t
          /\ IF CaptureExc(p) # "none"
             THEN /\ mon_exc' = CaptureExc(p)
                  /\ UNCHANGED <<end_stats, metrics>>
             ELSE LET e == CaptureStats(p, t)
                  IN  /\ end_stats' = e
                      /\ IF 0 \in Divisors(start_stats, e)
                         THEN mon_exc' = "ZeroDivisionError" /\ UNCHANGED metrics
                         ELSE metrics' = Metrics(start_stats, e) /\ UNCHANGED mon_exc
    /\ mon_calls' = mon_calls + 1
    /\ UNCHANGED start_stats

\* get_metrics() when the end snapshot exists
GetMetricsStopped ==
    /\ mon_exc = "none" /\ mon_calls < MaxMonCalls
    /\ ~NeedsStop(end_stats)
    /\ IF 0 \in Divisors(start_stats, end_stats)
       THEN mon_exc' = "ZeroDivisionError" /\ UNCHANGED metrics
       ELSE metrics' = Metrics(start_stats, end_stats) /\ UNCHANGED mon_exc
    /\ mon_calls' = mon_calls + 1
    /\ UNCHANGED <<proc, clock, start_stats, end_stats>>

\* SystemMonitor(): self.start_stats = self._capture_stats(); self.end_stats = None
InitMon ==
    /\ proc \in {[BootProc EXCEPT !.readable = R] : R \in SUBSET Sources}
    /\ clock \in Times
    /\ mon_exc = CaptureExc(proc)
    /\ start_stats = IF mon_exc = "none" THEN CaptureStats(proc, clock) ELSE None
    /\ end_stats = None /\ metrics = None /\ mon_calls = 0
    /\ MainIdle /\ ConcIdle /\ PctIdle /\ PickIdle /\ GenIdle /\ TempIdle

NextMon ==
    \/ Stop /\ UNCHANGED notMon
    \/ GetMetricsStopping /\ UNCHANGED notMon
    \/ GetMetricsStopped /\ UNCHANGED notMon

SpecMon == InitMon /\ [][NextMon]_vars

\* The keys of the dictionary get_metrics returns
MetricKeys == {"cpu_load_percent", "memory_used_gb", "disk_read_mb_s", "disk_write_mb_s"}

\* C14: get_metrics never divides by zero, whatever the two snapshots: when
\* the CPU total delta is <= 0 the cpu_load_percent it reports is 0, and when
\* the elapsed time is <= 0 the throughputs are the byte deltas divided by 1
C14_NoDivisionByZero ==
    /\ mon_exc # "ZeroDivisionError"
    /\ end_stats # None => 0 \notin Divisors(start_stats, end_stats)
    /\ metrics # None =>
          /\ end_stats.cpu_total - start_stats.cpu_total <= 0
                => metrics.cpu_load_percent = 0
          /\ end_stats.time - start_stats.time <= 0
                => /\ metrics.disk_read_mb_s =
                        Round2(end_stats.disk_read_bytes - start_stats.disk_read_bytes, MiB)
                   /\ metrics.disk_write_mb_s =
                        Round2(end_stats.disk_write_bytes - start_stats.disk_write_bytes, MiB)

\* get_metrics has returned for an end snapshot taken at the same clock reading as
\* the start, with /proc/stat unreadable at the end and one block read in between
C14_Witness ==
    /\ metrics # None
    /\ end_stats.time = start_stats.time
    /\ start_stats.cpu_total > 0 /\ end_stats.cpu_total = 0
    /\ metrics.cpu_load_percent = 0
    /\ start_stats.disk_read_bytes > 0
    /\ end_stats.disk_read_bytes - start_stats.disk_read_bytes = MiB
    /\ metrics.disk_read_mb_s = 100

\* C15: get_metrics never reports a negative disk read or write throughput,
\* for any two snapshots the monitor can capture, a pair with the counter file
\* readable at one snapshot and unreadable at the other included
C15_ThroughputNotNegative ==
    metrics # None => (metrics.disk_read_mb_s >= 0 /\ metrics.disk_write_mb_s >= 0)

\* What does hold: with /proc/diskstats readable at the end snapshot, or at
\* neither, no throughput is negative
C15_NotNegativeWhenEndReadable ==
    (metrics # None /\ (end_stats.disk_read_bytes > 0 \/ start_stats.disk_read_bytes = 0))
        => (metrics.disk_read_mb_s >= 0 /\ metrics.disk_write_mb_s >= 0)

\* The raw fields of snapshot st taken from the files outside R are 0
ZeroWhereUnreadable(st, R) ==
    /\ "/proc/stat" \notin R => (st.cpu_total = 0 /\ st.cpu_idle = 0)
    /\ "/proc/diskstats" \notin R => (st.disk_read_bytes = 0 /\ st.disk_write_bytes = 0)
    /\ "/proc/meminfo" \notin R => (st.mem_total_kb = 0 /\ st.mem_used_kb = 0)

\* C16: a counter file that cannot be opened or read, at construction or at
\* stop, raises no error in the monitor: the snapshot's fields from that file
\* are 0, and get_metrics still returns a complete metrics record
C16_UnreadableSourceDegradesToZero ==
    /\ mon_exc = "none"
    /\ end_stats = None => ZeroWhereUnreadable(start_stats, proc.readable)
    /\ end_stats # None => ZeroWhereUnreadable(end_stats, proc.readable)
    /\ mon_calls > 0 => (metrics # None /\ DOMAIN metrics = MetricKeys)

\* /proc/diskstats was unreadable at construction, /proc/stat and /proc/meminfo
\* at stop, and get_metrics has returned
C16_Witness ==
    /\ mon_calls = 1 /\ metrics # None
    /\ start_stats.disk_read_bytes = 0 /\ start_stats.cpu_total > 0
    /\ proc.readable = {"/proc/diskstats"}
    /\ end_stats.cpu_total = 0 /\ end_stats.mem_used_kb = 0
    /\ end_stats.disk_read_bytes > 0

\* C20: get_metrics captures the end snapshot only when there is none yet;
\* once stop() or a first get_metrics has run, a get_metrics call leaves both
\* snapshots as they are, and repeated calls return the same metrics
C20_GetMetricsKeepsSnapshots ==
    /\ [][(end_stats' # end_stats) => end_stats = None]_vars
    /\ [][(mon_calls' = mon_calls + 1 /\ end_stats # None)
            => /\ start_stats' = start_stats /\ end_stats' = end_stats
               /\ mon_calls >= 1 => metrics' = metrics]_vars

\* A second get_metrics has returned, after a period in which a block was
\* written and two ticks passed, one of them idle
C20_Witness ==
    /\ mon_calls = 2
    /\ metrics = Metrics(start_stats, end_stats)
    /\ start_stats.disk_write_bytes > 0 /\ metrics.disk_write_mb_s > 0
    /\ start_stats.cpu_total > 0 /\ metrics.cpu_load_percent = 5000

\* C21: in the optimized schema run_write_test creates all its transactions:
\* the day_key it stamps on them, the date of the current time, is the key of
\* a Day node create_temporal_hierarchy created, so the Day match of the write
\* query succeeds for every row
C21_WriteTestDayHasBucket ==
    temp_pc = "written" =>
        /\ row.day_key \in day_nodes
        /\ in_day = {row.day_key}

\* What does hold: the date of the current time is later than every date
\* with a Day node, and the write query creates nothing
C21_WriteTestCreatesNothing ==
    temp_pc = "written" =>
        /\ \A k \in day_nodes : k < row.day_key
        /\ in_day = {}

\* Every worker has terminated and has been joined
AllJoined == joined = threads /\ \A w \in Workers : Terminated(w)

\* C22: run_concurrency_test terminates and returns a result when every store
\* call returns or raises: once the stop signal is set every worker leaves
\* its loop and is joined, also a worker all of whose store calls fail and a
\* worker that fails to open its session
C22_Terminates ==
    <>(mpc = "done" /\ ret >= 0 /\ AllJoined)

\* The test has returned; worker 1 failed to open its session, every store
\* call of worker 2 failed
C22_Witness ==
    /\ mpc = "done" /\ ret = 0 /\ threads = 2
    /\ wpc[1] = "dead"
    /\ wpc[2] = "done" /\ calls[2] >= 2 /\ errCalls[2] = calls[2]

====
